---- MODULE Spec2Model ----
(***************************************************************************)
(* Model of the video upload pipeline of handler_upload_video.go:          *)
(* handlerUploadVideo (one process per in-flight HTTP request, one action  *)
(* per step of the handler) and getVideoAspectRatio (a pure operator over  *)
(* the prober's standard output), and of handlerUploadThumbnail, which     *)
(* writes the same metadata record.  The metadata store, the object store  *)
(* and the local filesystem are shared state.                              *)
(***************************************************************************)
EXTENDS Integers, Sequences, FiniteSets, TLC

\* ------------------------------------------------------------------ bounds
\* Concurrent request contexts (goroutines of the HTTP server).
Slots == {1, 2}
\* Requests started in one behaviour.
MaxReqs == 2
\* Number of chunks a staged payload is written in.
PayloadLen == 2
\* Values drawn from the random source in one behaviour.
MaxToken == 2
\* Widths and heights of the classification sweep lie in -MaxDim..MaxDim.
MaxDim == 18
\* Streams of a file of the classification sweep.
MaxStreams == 3

\* ------------------------------------------------------- program constants
\* r.Body = http.MaxBytesReader(w, r.Body, 1<<30)
Limit == 1073741824
StatusOK == 200
StatusBadRequest == 400
StatusUnauthorized == 401
StatusInternalServerError == 500

Bucket == "bucket"
Region == "region"

\* ------------------------------------------------------------------ values
None == "none"
\* Path values: "v1" is the identity of a stored record, "v9" is a well-formed
\* identity without a record, "zz" is not a UUID.
PathValues == {"v1", "v9", "zz"}
UUIDs == {"v1", "v9"}
Videos == {"v1"}
Owner == [v \in Videos |-> "u1"]

\* Authorization headers: absent, a bearer token signed for a user, a bearer
\* token that does not validate.
AuthHeaders == {None, "jwt-u1", "jwt-u2", "jwt-bad"}

\* Request bodies by size: the multipart form ends at byte formEnd, the body
\* holds total bytes (total > formEnd: bytes after the closing boundary).
\* goneAt is the handler's position when the client went away, None while the
\* client is there; cut says that the client went away before it had sent
\* the whole form.
Bodies ==
    { [formEnd |-> Limit, total |-> Limit, goneAt |-> None, cut |-> FALSE],
      [formEnd |-> 1, total |-> Limit + 1, goneAt |-> None, cut |-> FALSE],
      [formEnd |-> Limit + 1, total |-> Limit + 1, goneAt |-> None, cut |-> FALSE] }

\* A media stream as the prober reports it.
Stream(c, w, h) == [codec_type |-> c, width |-> w, height |-> h]

\* Uploaded payloads, named by the streams they hold; a payload that is not a
\* media file holds none.
Media(streams) == [media |-> TRUE, streams |-> streams]
Junk == [media |-> FALSE, streams |-> <<>>]
Payloads ==
    { Media(<<Stream("video", 1920, 1080), Stream("audio", 0, 0)>>),
      Media(<<Stream("video", 1920, 1080), Stream("video", 1080, 1920)>>),
      Media(<<Stream("video", 1000, 1000)>>),
      Media(<<Stream("audio", 0, 0)>>),
      Junk }

\* Payloads of the classification sweep: one video stream of every size in
\* range, and the three sizes the specification names.
ExampleDims == {<<1920, 1080>>, <<1080, 1920>>, <<1000, 1000>>}
SweepDims == ((-MaxDim..MaxDim) \X (-MaxDim..MaxDim)) \cup ExampleDims
\* and files of up to MaxStreams streams, video streams of the three named
\* sizes and audio streams in any order.
SampleStreams ==
    { Stream("video", 1920, 1080), Stream("video", 1080, 1920),
      Stream("video", 1000, 1000), Stream("audio", 0, 0) }
StreamSeqs == UNION { [1..n -> SampleStreams] : n \in 0..MaxStreams }
SweepPayloads ==
    { Media(<<Stream("video", d[1], d[2])>>) : d \in SweepDims }
        \cup { Media(q) : q \in StreamSeqs }

\* The bytes of payload p: PayloadLen chunks.
Chunks(p) == [i \in 1..PayloadLen |-> <<p, i>>]

\* Content-Type values of the file part, as token sequences.
ContentTypes ==
    { <<"video", "/", "mp4">>,
      <<"VIDEO", "/", "MP4", ";", "codecs=avc1">>,
      <<"video", "/", "mp4", ";", "=">>,
      <<"image", "/", "png">>,
      <<"mp4">>,
      <<"video", "/">>,
      <<>> }

Tokens == 1..MaxToken
TempNames == {"tubely-upload.mp4-a", "tubely-upload.mp4-b"}

\* ---------------------------------------------------------- pure operators
Result(v, e) == [val |-> v, err |-> e]

\* uuid.Parse
uuidParse(s) == IF s \in UUIDs THEN Result(s, FALSE) ELSE Result(None, TRUE)

\* auth.GetBearerToken
GetBearerToken(h) == IF h = None THEN Result(None, TRUE) ELSE Result(h, FALSE)

\* auth.ValidateJWT
ValidateJWT(t) ==
    CASE t = "jwt-u1" -> Result("u1", FALSE)
      [] t = "jwt-u2" -> Result("u2", FALSE)
      [] OTHER -> Result(None, TRUE)

\* strings.ToLower on one token
ToLower(w) ==
    CASE w = "VIDEO" -> "video"
      [] w = "MP4" -> "mp4"
      [] OTHER -> w

\* Index of the first ";" of v, or Len(v) + 1
FirstSemi(v) ==
    LET S == {i \in 1..Len(v) : v[i] = ";"}
    IN  IF S = {} THEN Len(v) + 1 ELSE CHOOSE i \in S : \A j \in S : i <= j

IsWord(t) == t \notin {"/", ";", "="}

\* mime.ParseMediaType: the lower-cased text before the first ";", which must
\* be token or token/token, followed by well-formed parameters.
ParseMediaType(v) ==
    LET k == FirstSemi(v)
        base == [i \in 1..(k - 1) |-> ToLower(v[i])]
        params == SubSeq(v, k + 1, Len(v))
        badBase == \/ Len(base) = 0
                   \/ ~IsWord(base[1])
                   \/ Len(base) = 2
                   \/ Len(base) > 3
                   \/ (Len(base) = 3 /\ (base[2] # "/" \/ ~IsWord(base[3])))
        badParams == \E i \in 1..Len(params) : ~IsWord(params[i])
    IN  IF badBase \/ badParams THEN Result(<<>>, TRUE) ELSE Result(base, FALSE)

\* strings.Split(mediaType, "/") on a checked media type: the tokens between
\* the slashes.
SplitSlash(m) == SelectSeq(m, LAMBDA t : t # "/")

\* Mutant: division rounding toward minus infinity.
TruncDiv_floor(a, b) == a \div b

\* Go's integer division truncates toward zero.
TruncDiv(a, b) == IF a >= 0 THEN a \div b ELSE -((-a) \div b)

\* Standard output of the prober.
EmptyOut == [kind |-> "empty"]
GarbageOut == [kind |-> "garbage"]
ObjectOut(streams) == [kind |-> "object", streams |-> streams]

\* What ffprobe -print_format json -show_streams prints for a file: the
\* streams of a complete media payload; for anything else an object without
\* streams.
ffprobe(content) ==
    IF /\ Len(content) = PayloadLen
       /\ \A i \in 1..PayloadLen : content[i] = <<content[1][1], i>>
       /\ content[1][1].media
    THEN ObjectOut(content[1][1].streams)
    ELSE ObjectOut(<<>>)

\* Mutant: output that does not parse is taken as a document without streams.
Unmarshal_lenient(out) ==
    Result(IF out.kind = "object" THEN out.streams ELSE <<>>, FALSE)

\* json.Unmarshal(out.Bytes(), &data)
Unmarshal(out) ==
    IF out.kind = "object" THEN Result(out.streams, FALSE)
    ELSE Result(<<>>, TRUE)

\* Mutant: the loop stops at the first video stream.
LastVideo_first(streams, acc) ==
    LET V == {i \in 1..Len(streams) : streams[i].codec_type = "video"}
        k == CHOOSE i \in V : \A j \in V : i <= j
    IN  IF V = {} THEN acc ELSE <<streams[k].width, streams[k].height>>

\* The loop over data.Streams: width and height of the last video stream,
\* both zero when there is none.
RECURSIVE LastVideo(_, _)
LastVideo(streams, acc) ==
    IF streams = <<>> THEN acc
    ELSE LastVideo(Tail(streams),
                   IF Head(streams).codec_type = "video"
                   THEN <<Head(streams).width, Head(streams).height>>
                   ELSE acc)

\* Mutant: a missing dimension is not classified as landscape.
AspectRatioOf_guarded(width, height) ==
    IF width = 0 \/ height = 0 THEN "other"
    ELSE IF width = TruncDiv(16 * height, 9) THEN "16:9"
    ELSE IF height = TruncDiv(16 * width, 9) THEN "9:16"
    ELSE "other"

\* Lines 186-191: the comparison of width and height.
AspectRatioOf(width, height) ==
    IF width = TruncDiv(16 * height, 9) THEN "16:9"
    ELSE IF height = TruncDiv(16 * width, 9) THEN "9:16"
    ELSE "other"

getVideoAspectRatio(out) ==
    LET data == Unmarshal(out)
        wh == LastVideo(data.val, <<0, 0>>)
    IN  IF data.err THEN Result("", TRUE)
        ELSE Result(AspectRatioOf(wh[1], wh[2]), FALSE)

\* Mutant: the two named cases exchanged.
Directory_swapped(aspectRatio) ==
    CASE aspectRatio = "16:9" -> "portrait"
      [] aspectRatio = "9:16" -> "landscape"
      [] OTHER -> "other"

\* switch aspectRatio
Directory(aspectRatio) ==
    CASE aspectRatio = "16:9" -> "landscape"
      [] aspectRatio = "9:16" -> "portrait"
      [] OTHER -> "other"

\* base64.RawURLEncoding.EncodeToString
EncodeToString(t) == <<"b64url", t>>

\* prefix + encoded name + "." + extension
EncodedVideoName(directory, t, extension) ==
    <<directory, "/", EncodeToString(t), ".", extension>>

\* Mutant: the path-style address of the object.
VideoURL_pathStyle(key) == <<"https://", "s3.", Region, ".amazonaws.com/", Bucket, "/">> \o key

\* fmt.Sprintf("https://%s.s3.%s.amazonaws.com/%s", ...)
VideoURL(key) == <<"https://", Bucket, ".s3.", Region, ".amazonaws.com/">> \o key

\* ------------------------------------------------------------------- state
VARIABLES
    db,         \* metadata store: video identity -> record
    s3,         \* object store: the objects put, one per key
    fs,         \* temp directory: name -> file
    openFiles,  \* the process's open file handles, <<context, file>>
    pc,         \* each request context's position in handlerUploadVideo
    request,    \* each context's inbound request body
    local,      \* each context's local variables
    responses,  \* each context's responses written to the client
    trace,      \* each context's steps so far, <<step, succeeded>>
    started,    \* requests started so far
    drawn,      \* values the random source has given out so far
    putKeys,    \* history: the keys PutObject has been called with
    assets      \* files under cfg.assetsRoot: name -> bytes

vars == <<db, s3, fs, openFiles, pc, request, local, responses, trace, started,
          drawn, putKeys, assets>>

NoURL == <<>>
NoRecord == [ID |-> None, UserID |-> None, VideoURL |-> NoURL, ThumbnailURL |-> NoURL]
NoFile == [exists |-> FALSE, data |-> <<>>]
NoHandle == [name |-> None, offset |-> 0]
NoBody == [formEnd |-> 0, total |-> 0, goneAt |-> None, cut |-> FALSE]

\* The handler's local variables before its first statement.
InitLocal ==
    [ limit |-> 0, videoId |-> None, userId |-> None, videoMetadata |-> NoRecord,
      header |-> <<>>, mediaType |-> <<>>, extension |-> None,
      tempFile |-> NoHandle, videoRandomName |-> 0, out |-> [kind |-> "unset"],
      aspectRatio |-> "", directory |-> "", outcome |-> None ]

Init ==
    /\ db = [v \in Videos |->
                [ID |-> v, UserID |-> Owner[v], VideoURL |-> NoURL, ThumbnailURL |-> NoURL]]
    /\ s3 = {}
    /\ fs = [n \in TempNames |-> NoFile]
    /\ openFiles = {}
    /\ pc = [s \in Slots |-> "idle"]
    /\ request = [s \in Slots |-> NoBody]
    /\ local = [s \in Slots |-> InitLocal]
    /\ responses = [s \in Slots |-> <<>>]
    /\ trace = [s \in Slots |-> <<>>]
    /\ started = 0
    /\ drawn = 0
    /\ putKeys = {}
    /\ assets = {}

InFlight(s) == pc[s] \notin {"idle", "returned"}

\* Mutant: the deferred os.Remove is missing.
Deferred_noRemove(s) ==
    /\ openFiles' = {f \in openFiles : f[1] # s}
    /\ fs' = fs

\* ------------------------------------------------------- ends of a request
\* The deferred calls, in the order they run: tempFile.Close(),
\* os.Remove(tempFile.Name()), videoFile.Close().
Deferred(s) ==
    /\ openFiles' = {f \in openFiles : f[1] # s}
    /\ fs' = IF local[s].tempFile.name \in TempNames
             THEN [fs EXCEPT ![local[s].tempFile.name] = NoFile]
             ELSE fs

\* The handler returns: its deferred calls run and its locals are gone.
Return(s, outcome) ==
    /\ pc' = [pc EXCEPT ![s] = "returned"]
    /\ local' = [local EXCEPT ![s] = [InitLocal EXCEPT !.outcome = outcome]]
    /\ Deferred(s)

\* respondWithError(w, code, msg, err); return
Fail(s, step, code, msg) ==
    /\ responses' = [responses EXCEPT ![s] = Append(@, [status |-> code, body |-> msg])]
    /\ trace' = [trace EXCEPT ![s] = Append(@, <<step, FALSE>>)]
    /\ Return(s, "Failed")

\* A step succeeded: go on to the next one with the locals loc.
Goto(s, loc, step, next) ==
    /\ pc' = [pc EXCEPT ![s] = next]
    /\ local' = [local EXCEPT ![s] = loc]
    /\ trace' = [trace EXCEPT ![s] = Append(@, <<step, TRUE>>)]
    /\ UNCHANGED responses

\* --------------------------------------------------------------- operations
\* The server hands a request to handlerUploadVideo in a context of its own.
NewRequest(s) ==
    /\ pc[s] \in {"idle", "returned"}
    /\ started < MaxReqs
    /\ \E b \in Bodies : request' = [request EXCEPT ![s] = b]
    /\ pc' = [pc EXCEPT ![s] = "start"]
    /\ local' = [local EXCEPT ![s] = InitLocal]
    /\ responses' = [responses EXCEPT ![s] = <<>>]
    /\ trace' = [trace EXCEPT ![s] = <<>>]
    /\ started' = started + 1
    /\ UNCHANGED <<db, s3, fs, openFiles, drawn, putKeys, assets>>

\* Lines 22-47: cap the body, parse the path identity, read and validate the
\* bearer token.
Authenticate(s) ==
    /\ pc[s] = "start"
    /\ \E path \in PathValues, h \in AuthHeaders :
         LET id == uuidParse(path)
             tok == GetBearerToken(h)
             usr == ValidateJWT(tok.val)
         IN  IF id.err
             THEN Fail(s, "uuid.Parse", StatusBadRequest, "Invalid ID")
             ELSE IF tok.err
             THEN Fail(s, "GetBearerToken", StatusUnauthorized, "Couldn't find JWT")
             ELSE IF usr.err
             THEN Fail(s, "ValidateJWT", StatusUnauthorized, "Couldn't validate JWT")
             ELSE /\ Goto(s, [local[s] EXCEPT !.limit = Limit, !.videoId = id.val,
                                              !.userId = usr.val],
                          "ValidateJWT", "getvideo")
                  /\ UNCHANGED <<fs, openFiles>>
    /\ UNCHANGED <<db, s3, request, started, drawn, putKeys, assets>>

\* Lines 49-54: cfg.db.GetVideo(videoId) returns a copy of the record, or an
\* error when there is none or the store fails.
GetVideo(s) ==
    /\ pc[s] = "getvideo"
    /\ \/ /\ local[s].videoId \in Videos
          /\ Goto(s, [local[s] EXCEPT !.videoMetadata = db[local[s].videoId]],
                  "GetVideo", "owner")
          /\ UNCHANGED <<fs, openFiles>>
       \/ Fail(s, "GetVideo", StatusInternalServerError, "Couldn't find video metadata")
    /\ UNCHANGED <<db, s3, request, started, drawn, putKeys, assets>>

\* Mutant: the ownership comparison is missing.
CheckOwner_skip(s) ==
    /\ pc[s] = "owner"
    /\ Goto(s, local[s], "CheckOwner", "formfile")
    /\ UNCHANGED <<db, s3, fs, openFiles, request, started, drawn, putKeys, assets>>

\* Lines 56-60: if videoMetadata.UserID != userId
CheckOwner(s) ==
    /\ pc[s] = "owner"
    /\ IF local[s].videoMetadata.UserID # local[s].userId
       THEN Fail(s, "CheckOwner", StatusUnauthorized, "User not authorized")
       ELSE Goto(s, local[s], "CheckOwner", "formfile") /\ UNCHANGED <<fs, openFiles>>
    /\ UNCHANGED <<db, s3, request, started, drawn, putKeys, assets>>

\* Positions of the handler at which the body has not been read yet.
BeforeBodyRead == {"start", "getvideo", "owner", "formfile"}

\* The body the server has received ends short of the form's closing
\* boundary: the client went away while it was still sending the form.
BodyCutShort(s) == request[s].cut

\* Mutant: the body is read without the cap.
FormFile_nocap(s) ==
    /\ pc[s] = "formfile"
    /\ \/ /\ ~BodyCutShort(s)
          /\ \E h \in ContentTypes :
                Goto(s, [local[s] EXCEPT !.header = h], "FormFile", "mediatype")
          /\ openFiles' = openFiles \cup {<<s, "videoFile">>}
          /\ UNCHANGED fs
       \/ Fail(s, "FormFile", StatusBadRequest, "Unable to parse video file")
    /\ UNCHANGED <<db, s3, request, started, drawn, putKeys, assets>>

\* Mutant: the return after the form's error response is missing.
FormFile_noReturn(s) ==
    /\ pc[s] = "formfile"
    /\ \/ /\ request[s].formEnd <= local[s].limit
          /\ ~BodyCutShort(s)
          /\ \E h \in ContentTypes :
                Goto(s, [local[s] EXCEPT !.header = h], "FormFile", "mediatype")
          /\ openFiles' = openFiles \cup {<<s, "videoFile">>}
          /\ UNCHANGED fs
       \/ /\ responses' = [responses EXCEPT ![s] =
                              Append(@, [status |-> StatusBadRequest,
                                         body |-> "Unable to parse video file"])]
          /\ trace' = [trace EXCEPT ![s] = Append(@, <<"FormFile", FALSE>>)]
          /\ pc' = [pc EXCEPT ![s] = "mediatype"]
          /\ UNCHANGED <<fs, openFiles, local>>
    /\ UNCHANGED <<db, s3, request, started, drawn, putKeys, assets>>

\* Lines 62-68: r.FormFile("video") reads the whole multipart form through
\* the capped body.  It fails when the form does not end within the first
\* Limit bytes, when the form is malformed or has no "video" part, or when
\* the client went away before it had sent the whole form; a form that had
\* arrived before the client went away is read from what was received.
\* Bytes after the closing boundary are not read.
FormFile(s) ==
    /\ pc[s] = "formfile"
    /\ \/ /\ request[s].formEnd <= local[s].limit
          /\ ~BodyCutShort(s)
          /\ \E h \in ContentTypes :
                Goto(s, [local[s] EXCEPT !.header = h], "FormFile", "mediatype")
          /\ openFiles' = openFiles \cup {<<s, "videoFile">>}
          /\ UNCHANGED fs
       \/ Fail(s, "FormFile", StatusBadRequest, "Unable to parse video file")
    /\ UNCHANGED <<db, s3, request, started, drawn, putKeys, assets>>

\* Lines 70-84: parse the declared media type, take the extension after the
\* slash, accept only video/mp4; the part's header is not read again.  strings.Split(mediaType, "/")[1] panics
\* when the media type has no slash: the deferred calls run, the server
\* recovers and closes the connection without a response.
CheckMediaType(s) ==
    /\ pc[s] = "mediatype"
    /\ LET mt == ParseMediaType(local[s].header)
           parts == SplitSlash(mt.val)
       IN  IF mt.err
           THEN Fail(s, "ParseMediaType", StatusBadRequest, "Invalid ID")
           ELSE IF Len(parts) < 2
           THEN /\ trace' = [trace EXCEPT ![s] = Append(@, <<"panic", FALSE>>)]
                /\ Return(s, "Panicked")
                /\ UNCHANGED responses
           ELSE IF mt.val # <<"video", "/", "mp4">>
           THEN Fail(s, "CheckMediaType", StatusBadRequest, "Invalid file upload")
           ELSE /\ Goto(s, [local[s] EXCEPT !.mediaType = mt.val, !.extension = parts[2],
                                            !.header = <<>>],
                        "CheckMediaType", "createtemp")
                /\ UNCHANGED <<fs, openFiles>>
    /\ UNCHANGED <<db, s3, request, started, drawn, putKeys, assets>>

\* Lines 86-93: os.CreateTemp makes a new empty file under a name no file has
\* and opens it, or fails.
CreateTemp(s) ==
    /\ pc[s] = "createtemp"
    /\ \/ \E n \in TempNames :
            /\ ~fs[n].exists
            /\ fs' = [fs EXCEPT ![n] = [exists |-> TRUE, data |-> <<>>]]
            /\ openFiles' = openFiles \cup {<<s, n>>}
            /\ Goto(s, [local[s] EXCEPT !.tempFile = [name |-> n, offset |-> 0]],
                    "CreateTemp", "copy")
       \/ Fail(s, "CreateTemp", StatusInternalServerError, "Couldn't create temp file")
    /\ UNCHANGED <<db, s3, request, started, drawn, putKeys, assets>>

\* The file tempFile names, after writing data at the handle's offset.
WriteAt(s, data) ==
    [fs EXCEPT ![local[s].tempFile.name].data =
        SubSeq(@, 1, local[s].tempFile.offset) \o data]

\* Mutant: the file is not rewound after the copy.
CopyOf_noSeek(s, payloads) ==
    /\ pc[s] = "copy"
    /\ \E p \in payloads :
         \/ /\ fs' = WriteAt(s, Chunks(p))
            /\ Goto(s, [local[s] EXCEPT !.tempFile.offset = @ + Len(Chunks(p))],
                    "Copy", "rand")
            /\ UNCHANGED openFiles
         \/ Fail(s, "Copy", StatusInternalServerError, "Couldn't write video data")
    /\ UNCHANGED <<db, s3, request, started, drawn, putKeys, assets>>

\* Lines 95-103: io.Copy(tempFile, videoFile) writes the bytes of the part
\* r.FormFile has already received, and tempFile.Seek(0, io.SeekStart)
\* rewinds; or the copy fails on the local files, and whatever it wrote goes
\* with the file when the handler returns.  The copy does not read the
\* connection: a client that has gone away does not stop it.
CopyOf(s, payloads) ==
    /\ pc[s] = "copy"
    /\ \E p \in payloads :
         \/ /\ fs' = WriteAt(s, Chunks(p))
            /\ Goto(s, [local[s] EXCEPT !.tempFile.offset = 0], "Copy", "rand")
            /\ UNCHANGED openFiles
         \/ Fail(s, "Copy", StatusInternalServerError, "Couldn't write video data")
    /\ UNCHANGED <<db, s3, request, started, drawn, putKeys, assets>>

Copy(s) == CopyOf(s, Payloads)

\* Mutant: the buffer is never filled, every name is the zero value.
RandRead_noFill(s) ==
    /\ pc[s] = "rand"
    /\ \/ /\ drawn < MaxToken
          /\ drawn' = drawn + 1
          /\ Goto(s, [local[s] EXCEPT !.videoRandomName = 0], "rand.Read", "probe")
          /\ UNCHANGED <<fs, openFiles>>
       \/ /\ Fail(s, "rand.Read", StatusInternalServerError, "Couldn't generate random name")
          /\ UNCHANGED drawn
    /\ UNCHANGED <<db, s3, request, started, putKeys, assets>>

\* Lines 105-111: rand.Read(videoRandomName) fills the 32 bytes from the
\* random source, or fails.  The source gives a value it has not given
\* before: the draws are numbered, two draws of 256 random bits are taken
\* never to agree.
RandRead(s) ==
    /\ pc[s] = "rand"
    /\ \/ /\ drawn < MaxToken
          /\ drawn' = drawn + 1
          /\ Goto(s, [local[s] EXCEPT !.videoRandomName = drawn + 1], "rand.Read", "probe")
          /\ UNCHANGED <<fs, openFiles>>
       \/ /\ Fail(s, "rand.Read", StatusInternalServerError, "Couldn't generate random name")
          /\ UNCHANGED drawn
    /\ UNCHANGED <<db, s3, request, started, putKeys, assets>>

\* What the ffprobe subprocess leaves on its standard output: its report on
\* the file at path, nothing when it could not be run, or a cut-off report.
ProbeOutputs(path) ==
    {ffprobe(IF fs[path].exists THEN fs[path].data ELSE <<>>), EmptyOut, GarbageOut}

\* Lines 158-170, called from line 113: run ffprobe on tempFile.Name() with
\* its standard output captured; the result of cmd.Run() is not looked at.
RunProbe(s) ==
    /\ pc[s] = "probe"
    /\ \E out \in ProbeOutputs(local[s].tempFile.name) :
         /\ pc' = [pc EXCEPT ![s] = "classify"]
         /\ local' = [local EXCEPT ![s].out = out]
    /\ UNCHANGED <<db, s3, fs, openFiles, request, responses, trace, started, drawn, putKeys, assets>>

\* Mutant: the return after the error response is missing.
Classify_noReturn(s) ==
    /\ pc[s] = "classify"
    /\ LET ar == getVideoAspectRatio(local[s].out)
       IN  /\ pc' = [pc EXCEPT ![s] = "put"]
           /\ local' = [local EXCEPT ![s].aspectRatio = ar.val,
                                     ![s].directory = Directory(ar.val)]
           /\ trace' = [trace EXCEPT ![s] = Append(@, <<"getVideoAspectRatio", ~ar.err>>)]
           /\ responses' = IF ar.err
                           THEN [responses EXCEPT ![s] =
                                   Append(@, [status |-> StatusInternalServerError,
                                              body |-> "Couldn't get aspect ratio"])]
                           ELSE responses
    /\ UNCHANGED <<db, s3, fs, openFiles, request, started, drawn, putKeys, assets>>

\* Lines 172-191 and 113-127: parse the captured output, classify, and choose
\* the directory.
Classify(s) ==
    /\ pc[s] = "classify"
    /\ LET ar == getVideoAspectRatio(local[s].out)
       IN  IF ar.err
           THEN Fail(s, "getVideoAspectRatio", StatusInternalServerError,
                     "Couldn't get aspect ratio")
           ELSE /\ Goto(s, [local[s] EXCEPT !.aspectRatio = ar.val,
                                            !.directory = Directory(ar.val)],
                        "getVideoAspectRatio", "put")
                /\ UNCHANGED <<fs, openFiles>>
    /\ UNCHANGED <<db, s3, request, started, drawn, putKeys, assets>>

\* The key of lines 129-131.
KeyOf(s) ==
    EncodedVideoName(local[s].directory, local[s].videoRandomName, local[s].extension)

\* The bytes a reader of tempFile gets: from the handle's offset to the end.
BodyOf(s) ==
    LET f == fs[local[s].tempFile.name]
    IN  SubSeq(f.data, local[s].tempFile.offset + 1, Len(f.data))

\* Reading the body to its end leaves the handle at the end of the file.
ReadToEnd(s) ==
    [local[s] EXCEPT !.tempFile.offset = Len(fs[local[s].tempFile.name].data)]

\* Mutant: the return after the error response is missing.
PutObject_noReturn(s) ==
    /\ pc[s] = "put"
    /\ \E ok \in BOOLEAN :
         /\ s3' = IF ok
                  THEN {o \in s3 : o.Key # KeyOf(s)} \cup
                       {[Key |-> KeyOf(s), Body |-> BodyOf(s),
                         ContentType |-> local[s].mediaType]}
                  ELSE s3
         /\ trace' = [trace EXCEPT ![s] = Append(@, <<"PutObject", ok>>)]
         /\ responses' = IF ok THEN responses
                         ELSE [responses EXCEPT ![s] =
                                 Append(@, [status |-> StatusInternalServerError,
                                            body |-> "Couldn't upload to S3"])]
         /\ local' = IF ok THEN [local EXCEPT ![s] = ReadToEnd(s)] ELSE local
    /\ pc' = [pc EXCEPT ![s] = "update"]
    /\ putKeys' = putKeys \cup {KeyOf(s)}
    /\ UNCHANGED <<db, fs, openFiles, request, started, drawn, assets>>

\* Lines 129-143: derive the key and cfg.s3Client.PutObject, which reads
\* tempFile from where its handle stands to the end; the store holds the
\* object under the key, replacing any it held, or the call fails.
PutObject(s) ==
    /\ pc[s] = "put"
    /\ \/ /\ s3' = {o \in s3 : o.Key # KeyOf(s)} \cup
                   {[Key |-> KeyOf(s), Body |-> BodyOf(s),
                     ContentType |-> local[s].mediaType]}
          /\ Goto(s, ReadToEnd(s), "PutObject", "update")
          /\ UNCHANGED <<fs, openFiles>>
       \/ /\ Fail(s, "PutObject", StatusInternalServerError, "Couldn't upload to S3")
          /\ UNCHANGED s3
    /\ putKeys' = putKeys \cup {KeyOf(s)}
    /\ UNCHANGED <<db, request, started, drawn, assets>>

\* cfg.db.UpdateVideo(video): the store's record of video.ID becomes video.
StoreUpdate(video) == [db EXCEPT ![video.ID] = video]

\* Mutant: a failed metadata write deletes the uploaded object again.
UpdateVideo_compensate(s) ==
    /\ pc[s] = "update"
    /\ LET video == [local[s].videoMetadata EXCEPT !.VideoURL = VideoURL(KeyOf(s))]
       IN  \/ /\ db' = StoreUpdate(video)
              /\ responses' = [responses EXCEPT ![s] =
                                 Append(@, [status |-> StatusOK, body |-> video])]
              /\ trace' = [trace EXCEPT ![s] = Append(@, <<"UpdateVideo", TRUE>>)]
              /\ Return(s, "Done")
              /\ UNCHANGED s3
           \/ /\ Fail(s, "UpdateVideo", StatusInternalServerError, "Couldn't update video")
              /\ s3' = {o \in s3 : o.Key # KeyOf(s)}
              /\ UNCHANGED db
    /\ UNCHANGED <<request, started, drawn, putKeys, assets>>

\* Mutant: a record that has a video reference keeps it.
UpdateVideo_keepFirst(s) ==
    /\ pc[s] = "update"
    /\ LET video == [local[s].videoMetadata EXCEPT !.VideoURL = VideoURL(KeyOf(s))]
       IN  \/ /\ db' = IF db[video.ID].VideoURL = NoURL THEN StoreUpdate(video) ELSE db
              /\ responses' = [responses EXCEPT ![s] =
                                 Append(@, [status |-> StatusOK, body |-> video])]
              /\ trace' = [trace EXCEPT ![s] = Append(@, <<"UpdateVideo", TRUE>>)]
              /\ Return(s, "Done")
           \/ /\ Fail(s, "UpdateVideo", StatusInternalServerError, "Couldn't update video")
              /\ UNCHANGED db
    /\ UNCHANGED <<s3, request, started, drawn, putKeys, assets>>

\* Lines 145-155: set the URL on the fetched record, cfg.db.UpdateVideo, and
\* answer with the record.
UpdateVideo(s) ==
    /\ pc[s] = "update"
    /\ LET video == [local[s].videoMetadata EXCEPT !.VideoURL = VideoURL(KeyOf(s))]
       IN  \/ /\ db' = StoreUpdate(video)
              /\ responses' = [responses EXCEPT ![s] =
                                 Append(@, [status |-> StatusOK, body |-> video])]
              /\ trace' = [trace EXCEPT ![s] = Append(@, <<"UpdateVideo", TRUE>>)]
              /\ Return(s, "Done")
           \/ /\ Fail(s, "UpdateVideo", StatusInternalServerError, "Couldn't update video")
              /\ UNCHANGED db
    /\ UNCHANGED <<s3, request, started, drawn, putKeys, assets>>

Next ==
    \E s \in Slots :
        \/ NewRequest(s)
        \/ Authenticate(s)
        \/ GetVideo(s)
        \/ CheckOwner(s)
        \/ FormFile(s)
        \/ CheckMediaType(s)
        \/ CreateTemp(s)
        \/ Copy(s)
        \/ RandRead(s)
        \/ RunProbe(s)
        \/ Classify(s)
        \/ PutObject(s)
        \/ UpdateVideo(s)

Spec == Init /\ [][Next]_vars

\* The classification sweep: one request context, payloads with one video
\* stream of every size in range, run up to the classification.
CopySweep(s) == CopyOf(s, SweepPayloads)

NextClassify ==
    \E s \in {1} :
        \/ NewRequest(s)
        \/ Authenticate(s)
        \/ GetVideo(s)
        \/ CheckOwner(s)
        \/ FormFile(s)
        \/ CheckMediaType(s)
        \/ CreateTemp(s)
        \/ CopySweep(s)
        \/ RandRead(s)
        \/ RunProbe(s)
        \/ Classify(s)

SpecClassify == Init /\ [][NextClassify]_vars

\* The client closes the connection while the handler of its request runs.
\* Before the handler has read the body, the form has arrived whole or the
\* client was still sending it; a form of Limit bytes or more is not held
\* unread by the connection.  The handler learns of the disconnect only
\* where it reads a body that was cut short (r.FormFile) or uses r.Context()
\* (PutObject, which may then fail).
ClientGone(s) ==
    /\ pc[s] \in {"start", "getvideo", "owner", "formfile", "mediatype", "createtemp",
                  "copy", "rand", "probe", "classify", "put", "update"}
    /\ request[s].goneAt = None
    /\ \E c \in BOOLEAN :
          /\ c => pc[s] \in BeforeBodyRead
          /\ (pc[s] \in BeforeBodyRead /\ request[s].formEnd >= Limit) => c
          /\ request' = [request EXCEPT ![s].goneAt = pc[s], ![s].cut = c]
    /\ UNCHANGED <<db, s3, fs, openFiles, pc, local, responses, trace, started,
                   drawn, putKeys, assets>>

\* One request context whose client may go away at any point.
NextCancel ==
    \E s \in {1} :
        \/ NewRequest(s)
        \/ ClientGone(s)
        \/ Authenticate(s)
        \/ GetVideo(s)
        \/ CheckOwner(s)
        \/ FormFile(s)
        \/ CheckMediaType(s)
        \/ CreateTemp(s)
        \/ Copy(s)
        \/ RandRead(s)
        \/ RunProbe(s)
        \/ Classify(s)
        \/ PutObject(s)
        \/ UpdateVideo(s)

SpecCancel == Init /\ [][NextCancel]_vars

\* ------------------------------------------------- handlerUploadThumbnail
Port == "port"
\* The bytes of an uploaded thumbnail.
ThumbBytes == <<"img">>

\* strings.Split(mediaType, "/") on the raw header value: the pieces between
\* the slashes, at least one.
RECURSIVE SplitRaw(_, _)
SplitRaw(v, piece) ==
    IF v = <<>> THEN <<piece>>
    ELSE IF Head(v) = "/" THEN <<piece>> \o SplitRaw(Tail(v), <<>>)
    ELSE SplitRaw(Tail(v), Append(piece, Head(v)))

\* filePath + "." + fileExtension under cfg.assetsRoot
AssetName(videoID, ext) == <<"assets/", videoID, ".">> \o ext

\* fmt.Sprintf("http://localhost:%s/assets/%s.%s", ...)
ThumbnailURL(videoID, ext) == <<"http://localhost:", Port, "/assets/", videoID, ".">> \o ext

\* The server hands a request to handlerUploadThumbnail.
NewThumbRequest(s) ==
    /\ pc[s] \in {"idle", "returned"}
    /\ started < MaxReqs
    /\ pc' = [pc EXCEPT ![s] = "t_start"]
    /\ local' = [local EXCEPT ![s] = InitLocal]
    /\ request' = [request EXCEPT ![s] = NoBody]
    /\ responses' = [responses EXCEPT ![s] = <<>>]
    /\ trace' = [trace EXCEPT ![s] = <<>>]
    /\ started' = started + 1
    /\ UNCHANGED <<db, s3, fs, openFiles, drawn, putKeys, assets>>

\* The one deferred call, file.Close(); the file os.Create opened is not
\* closed.
ThumbDeferred(s) == openFiles' = openFiles \ {<<s, "file">>}

ThumbReturn(s, outcome) ==
    /\ pc' = [pc EXCEPT ![s] = "returned"]
    /\ local' = [local EXCEPT ![s] = [InitLocal EXCEPT !.outcome = outcome]]
    /\ ThumbDeferred(s)

ThumbFail(s, step, code, msg) ==
    /\ responses' = [responses EXCEPT ![s] = Append(@, [status |-> code, body |-> msg])]
    /\ trace' = [trace EXCEPT ![s] = Append(@, <<step, FALSE>>)]
    /\ ThumbReturn(s, "Failed")

\* Lines 16-33: parse the path identity, read and validate the bearer token.
ThumbAuthenticate(s) ==
    /\ pc[s] = "t_start"
    /\ \E path \in PathValues, h \in AuthHeaders :
         LET id == uuidParse(path)
             tok == GetBearerToken(h)
             usr == ValidateJWT(tok.val)
         IN  IF id.err
             THEN ThumbFail(s, "uuid.Parse", StatusBadRequest, "Invalid ID")
             ELSE IF tok.err
             THEN ThumbFail(s, "GetBearerToken", StatusUnauthorized, "Couldn't find JWT")
             ELSE IF usr.err
             THEN ThumbFail(s, "ValidateJWT", StatusUnauthorized, "Couldn't validate JWT")
             ELSE /\ Goto(s, [local[s] EXCEPT !.videoId = id.val, !.userId = usr.val],
                          "ValidateJWT", "t_formfile")
                  /\ UNCHANGED openFiles
    /\ UNCHANGED <<db, s3, fs, request, started, drawn, putKeys, assets>>

\* Lines 38-48: r.ParseMultipartForm, r.FormFile("thumbnail") and the part's
\* Content-Type header as sent.
ThumbFormFile(s) ==
    /\ pc[s] = "t_formfile"
    /\ \/ /\ \E h \in ContentTypes :
                Goto(s, [local[s] EXCEPT !.header = h], "FormFile", "t_getvideo")
          /\ openFiles' = openFiles \cup {<<s, "file">>}
       \/ ThumbFail(s, "FormFile", StatusBadRequest, "Unable to parse form file")
    /\ UNCHANGED <<db, s3, fs, request, started, drawn, putKeys, assets>>

\* Lines 50-54: cfg.db.GetVideo(videoID)
ThumbGetVideo(s) ==
    /\ pc[s] = "t_getvideo"
    /\ \/ /\ local[s].videoId \in Videos
          /\ Goto(s, [local[s] EXCEPT !.videoMetadata = db[local[s].videoId]],
                  "GetVideo", "t_owner")
          /\ UNCHANGED openFiles
       \/ ThumbFail(s, "GetVideo", StatusInternalServerError,
                    "Unabel to fetch video metadata")
    /\ UNCHANGED <<db, s3, fs, request, started, drawn, putKeys, assets>>

\* Lines 56-59: if userID != videoMetadata.UserID
ThumbCheckOwner(s) ==
    /\ pc[s] = "t_owner"
    /\ IF local[s].userId # local[s].videoMetadata.UserID
       THEN ThumbFail(s, "CheckOwner", StatusUnauthorized, "Not allowed")
       ELSE Goto(s, local[s], "CheckOwner", "t_create") /\ UNCHANGED openFiles
    /\ UNCHANGED <<db, s3, fs, request, started, drawn, putKeys, assets>>

\* Lines 61-67: the extension is the second piece of the header value, an
\* index out of range when the value has no slash (the handler panics, the
\* deferred call runs, no response is written); os.Create makes the file
\* empty, or fails.
ThumbCreate(s) ==
    /\ pc[s] = "t_create"
    /\ LET parts == SplitRaw(local[s].header, <<>>)
       IN  IF Len(parts) < 2
           THEN /\ trace' = [trace EXCEPT ![s] = Append(@, <<"panic", FALSE>>)]
                /\ ThumbReturn(s, "Panicked")
                /\ UNCHANGED <<responses, assets>>
           ELSE \/ /\ assets' = {a \in assets : a.name # AssetName(local[s].videoId, parts[2])}
                                   \cup {[name |-> AssetName(local[s].videoId, parts[2]),
                                          data |-> <<>>]}
                   /\ openFiles' = openFiles \cup {<<s, "out">>}
                   /\ Goto(s, [local[s] EXCEPT !.extension = parts[2], !.header = <<>>],
                           "Create", "t_copy")
                \/ /\ ThumbFail(s, "Create", StatusInternalServerError, "Couldn't create file")
                   /\ UNCHANGED assets
    /\ UNCHANGED <<db, s3, fs, request, started, drawn, putKeys>>

\* Lines 69-73: io.Copy(out, file)
ThumbCopy(s) ==
    /\ pc[s] = "t_copy"
    /\ \/ /\ assets' = {a \in assets : a.name # AssetName(local[s].videoId, local[s].extension)}
                          \cup {[name |-> AssetName(local[s].videoId, local[s].extension),
                                 data |-> ThumbBytes]}
          /\ Goto(s, local[s], "Copy", "t_update")
          /\ UNCHANGED openFiles
       \/ /\ ThumbFail(s, "Copy", StatusInternalServerError, "Couldn't write data")
          /\ UNCHANGED assets
    /\ UNCHANGED <<db, s3, fs, request, started, drawn, putKeys>>

\* Lines 75-84: set the thumbnail URL on the fetched record,
\* cfg.db.UpdateVideo, and answer with the record.
ThumbUpdateVideo(s) ==
    /\ pc[s] = "t_update"
    /\ LET video == [local[s].videoMetadata EXCEPT
                        !.ThumbnailURL = ThumbnailURL(local[s].videoId, local[s].extension)]
       IN  \/ /\ db' = StoreUpdate(video)
              /\ responses' = [responses EXCEPT ![s] =
                                 Append(@, [status |-> StatusOK, body |-> video])]
              /\ trace' = [trace EXCEPT ![s] = Append(@, <<"UpdateVideo", TRUE>>)]
              /\ ThumbReturn(s, "Done")
           \/ /\ ThumbFail(s, "UpdateVideo", StatusBadRequest, "Unable to update video")
              /\ UNCHANGED db
    /\ UNCHANGED <<s3, fs, request, started, drawn, putKeys, assets>>

\* A video upload in context 1 and a thumbnail upload in context 2.
NextFrame ==
    \/ \E s \in {1} :
        \/ NewRequest(s)
        \/ Authenticate(s)
        \/ GetVideo(s)
        \/ CheckOwner(s)
        \/ FormFile(s)
        \/ CheckMediaType(s)
        \/ CreateTemp(s)
        \/ Copy(s)
        \/ RandRead(s)
        \/ RunProbe(s)
        \/ Classify(s)
        \/ PutObject(s)
        \/ UpdateVideo(s)
    \/ \E s \in {2} :
        \/ NewThumbRequest(s)
        \/ ThumbAuthenticate(s)
        \/ ThumbFormFile(s)
        \/ ThumbGetVideo(s)
        \/ ThumbCheckOwner(s)
        \/ ThumbCreate(s)
        \/ ThumbCopy(s)
        \/ ThumbUpdateVideo(s)

SpecFrame == Init /\ [][NextFrame]_vars

\* ------------------------------------------------------------------ claims
\* The names of the steps a request context has taken.
Steps(s) == {trace[s][i][1] : i \in 1..Len(trace[s])}
\* The steps it has taken with success.
StepsOk(s) == {trace[s][i][1] : i \in {j \in 1..Len(trace[s]) : trace[s][j][2]}}
LastStep(s) == IF trace[s] = <<>> THEN <<"", FALSE>> ELSE trace[s][Len(trace[s])]
\* The request ended with exactly one response, an error.
EndedInError(r, p, l) ==
    /\ p = "returned"
    /\ l.outcome = "Failed"
    /\ Len(r) = 1
    /\ r[1].status >= 400

\* C1: a request whose validated user differs from the fetched record's
\* UserID ends in an error response at its next step; before and at that step
\* no temp file is created, no PutObject and no UpdateVideo call is made, and
\* no step of the request up to there changes the metadata store.
C1_Mismatch(s) ==
    pc[s] = "owner" /\ local[s].userId # local[s].videoMetadata.UserID

C1_Step(s) ==
    /\ (C1_Mismatch(s) /\ pc'[s] # pc[s]) =>
          /\ EndedInError(responses'[s], pc'[s], local'[s])
          /\ responses'[s][1].status = StatusUnauthorized
          /\ Steps(s)' \cap {"FormFile", "CreateTemp", "Copy", "PutObject", "UpdateVideo"} = {}
          /\ \A f \in openFiles \cup openFiles' : f[1] # s
          /\ db' = db /\ s3' = s3 /\ fs' = fs
    /\ (pc[s] \in {"start", "getvideo", "owner"} /\ pc'[s] # pc[s]) =>
          (db' = db /\ s3' = s3 /\ fs' = fs)

Thm_C1 == [][\A s \in Slots : C1_Step(s)]_vars

Wit_C1 ==
    \E s \in Slots :
        /\ pc[s] = "returned"
        /\ LastStep(s) = <<"CheckOwner", FALSE>>
        /\ responses[s] = <<[status |-> StatusUnauthorized, body |-> "User not authorized"]>>

\* C2: a temp file exists, and a file handle is open, only while the request
\* that created it is in flight: once a request has returned, on any path,
\* its temp file is gone and its handles are closed.
Thm_C2 ==
    /\ \A n \in TempNames :
          fs[n].exists =>
             \E s \in Slots : InFlight(s) /\ local[s].tempFile.name = n
                              /\ <<s, n>> \in openFiles
    /\ \A f \in openFiles : InFlight(f[1])

Wit_C2 ==
    \E s \in Slots :
        /\ pc[s] = "returned"
        /\ \E i \in 1..Len(trace[s]) : trace[s][i] = <<"CreateTemp", TRUE>>
        /\ LastStep(s) = <<"UpdateVideo", FALSE>>
        /\ \A n \in TempNames : ~fs[n].exists
        /\ openFiles = {}

\* C3: the directory chosen for a payload with one video stream of width w
\* and height h is landscape when w is the quotient of 16*h by 9 truncated
\* toward zero, else portrait when h is that quotient of 16*w, else other;
\* 1920x1080 is landscape, 1080x1920 portrait, 1000x1000 other.
\* q is the quotient of a by b (b > 0) truncated toward zero.
IsTruncQuot(q, a, b) ==
    \E r \in (1 - b)..(b - 1) :
        /\ a = b * q + r
        /\ (a >= 0 => r >= 0)
        /\ (a <= 0 => r <= 0)

ClaimCategory(w, h) ==
    IF IsTruncQuot(w, 16 * h, 9) THEN "landscape"
    ELSE IF IsTruncQuot(h, 16 * w, 9) THEN "portrait"
    ELSE "other"

\* The streams of the payload staged in the temp file of s.
StagedStreams(s) ==
    LET d == fs[local[s].tempFile.name].data
    IN  IF d # <<>> /\ d[1][1].media THEN d[1][1].streams ELSE <<>>

\* Width and height of the last video stream among streams, zero without one.
DimsOf(streams) ==
    LET V == {i \in 1..Len(streams) : streams[i].codec_type = "video"}
        k == CHOOSE i \in V : \A j \in V : j <= i
    IN  IF V = {} THEN <<0, 0>> ELSE <<streams[k].width, streams[k].height>>

Thm_C3 ==
    \A s \in Slots :
        pc[s] = "put" =>
            LET d == DimsOf(StagedStreams(s))
            IN  /\ local[s].directory = ClaimCategory(d[1], d[2])
                /\ (d = <<1920, 1080>> => local[s].directory = "landscape")
                /\ (d = <<1080, 1920>> => local[s].directory = "portrait")
                /\ (d = <<1000, 1000>> => local[s].directory = "other")

Wit_C3 ==
    \E s \in Slots :
        /\ pc[s] = "put"
        /\ DimsOf(StagedStreams(s)) = <<1080, 1920>>
        /\ local[s].directory = "portrait"

\* C4: the key a request hands to PutObject is <category>/<token>.mp4, the
\* category being the classification of the width and height of the file the
\* request staged, and every key in the object store has that form.
Categories == {"landscape", "portrait", "other"}

ClaimKey(s) ==
    LET d == DimsOf(StagedStreams(s))
    IN  <<ClaimCategory(d[1], d[2]), "/", EncodeToString(local[s].videoRandomName),
          ".", "mp4">>

Thm_C4 ==
    /\ \A s \in Slots :
          /\ pc[s] \in {"put", "update"} =>
                KeyOf(s) = ClaimKey(s) /\ KeyOf(s)[1] \in Categories
          /\ pc[s] = "update" => \E o \in s3 : o.Key = ClaimKey(s)
    /\ \A o \in s3 :
          /\ Len(o.Key) = 5
          /\ o.Key[1] \in Categories
          /\ o.Key[2] = "/" /\ o.Key[4] = "." /\ o.Key[5] = "mp4"
          /\ \E t \in Tokens : o.Key[3] = EncodeToString(t)

Wit_C4 ==
    \E s \in Slots :
        /\ pc[s] = "update"
        /\ DimsOf(StagedStreams(s)) = <<1080, 1920>>
        /\ \E o \in s3 : o.Key = <<"portrait", "/", EncodeToString(local[s].videoRandomName),
                                   ".", "mp4">>

\* C5 as claimed: a request whose body holds more than Limit bytes is
\* rejected, making no PutObject and no UpdateVideo call.
CE_C5 ==
    \A s \in Slots :
        request[s].total > Limit =>
            /\ Steps(s) \cap {"PutObject", "UpdateVideo"} = {}
            /\ local[s].outcome # "Done"
            /\ \A i \in 1..Len(responses[s]) : responses[s][i].status >= 400

\* C5 as amended: a request whose multipart form does not end within the
\* first Limit bytes of the body makes no PutObject and no UpdateVideo call,
\* stages nothing and ends in an error response; the cap is on the body
\* before the form is read.
Thm_C5 ==
    \A s \in Slots :
        /\ request[s].formEnd > Limit =>
              /\ Steps(s) \cap {"CreateTemp", "Copy", "PutObject", "UpdateVideo"} = {}
              /\ <<"FormFile", TRUE>> \notin {trace[s][i] : i \in 1..Len(trace[s])}
              /\ pc[s] = "returned" => EndedInError(responses[s], pc[s], local[s])
        /\ pc[s] = "formfile" => local[s].limit = Limit

Wit_C5 ==
    \E s \in Slots :
        /\ request[s].formEnd > Limit
        /\ pc[s] = "returned"
        /\ LastStep(s) = <<"FormFile", FALSE>>
        /\ responses[s][1].status = StatusBadRequest

\* C6: a request whose PutObject call fails returns at that step with one
\* error response and without an UpdateVideo call, and no step of a request
\* changes the metadata store unless its PutObject call succeeded.
C6_Step(s) ==
    /\ (pc[s] = "put" /\ pc'[s] # pc[s] /\ LastStep(s)' = <<"PutObject", FALSE>>) =>
          /\ EndedInError(responses'[s], pc'[s], local'[s])
          /\ responses'[s][1].status = StatusInternalServerError
          /\ "UpdateVideo" \notin Steps(s)'
          /\ db' = db
    /\ (<<"PutObject", FALSE>> \in {trace[s][i] : i \in 1..Len(trace[s])}
          /\ pc'[s] # pc[s]) => pc'[s] = "start"
    /\ (pc'[s] # pc[s] /\ db' # db) => "PutObject" \in StepsOk(s)

Thm_C6 == [][\A s \in Slots : C6_Step(s)]_vars

Wit_C6 ==
    \E s \in Slots :
        /\ pc[s] = "returned"
        /\ LastStep(s) = <<"PutObject", FALSE>>
        /\ responses[s] = <<[status |-> StatusInternalServerError,
                             body |-> "Couldn't upload to S3"]>>
        /\ db["v1"].VideoURL = NoURL

\* C7: the steps of a request are taken in the order credential validation,
\* GetVideo, ownership check, staging, classification, PutObject,
\* UpdateVideo, each after all earlier ones succeeded, and the success
\* response is written only after all of them.
MainOrder ==
    <<"ValidateJWT", "GetVideo", "CheckOwner", "FormFile", "CreateTemp", "Copy",
      "getVideoAspectRatio", "PutObject", "UpdateVideo">>

IsMain(e) == \E i \in 1..Len(MainOrder) : MainOrder[i] = e[1]

Thm_C7 ==
    \A s \in Slots :
        LET m == SelectSeq(trace[s], IsMain)
        IN  /\ Len(m) <= Len(MainOrder)
            /\ \A i \in 1..Len(m) :
                  /\ m[i][1] = MainOrder[i]
                  /\ (i < Len(m) => m[i][2])
            /\ \A i \in 1..Len(trace[s]) : i < Len(trace[s]) => trace[s][i][2]
            /\ \A i \in 1..Len(responses[s]) :
                  responses[s][i].status = StatusOK =>
                      /\ Len(m) = Len(MainOrder)
                      /\ \A j \in 1..Len(m) : m[j][2]

Wit_C7 ==
    \E s \in Slots :
        /\ pc[s] = "returned"
        /\ local[s].outcome = "Done"
        /\ SelectSeq(trace[s], IsMain) = [i \in 1..Len(MainOrder) |-> <<MainOrder[i], TRUE>>]
        /\ Len(responses[s]) = 1
        /\ responses[s][1].status = StatusOK

\* The Content-Type value h declares video/mp4: its text before any ";" is
\* video/mp4 in some letter case.
DeclaresMp4(h) ==
    /\ Len(h) >= 3
    /\ h[1] \in {"video", "VIDEO"} /\ h[2] = "/" /\ h[3] \in {"mp4", "MP4"}
    /\ (Len(h) > 3 => h[4] = ";")

\* C8: a request whose file part declares a media type other than video/mp4
\* ends, at the media type check, in the Failed state with exactly one
\* bad-request response, no temp file and no PutObject or UpdateVideo call.
C8_Step(s) ==
    (pc[s] = "mediatype" /\ ~DeclaresMp4(local[s].header) /\ pc'[s] # pc[s]) =>
        /\ EndedInError(responses'[s], pc'[s], local'[s])
        /\ responses'[s][1].status = StatusBadRequest
        /\ Steps(s)' \cap {"CreateTemp", "PutObject", "UpdateVideo"} = {}
        /\ fs' = fs /\ s3' = s3 /\ db' = db

CE_C8 == [][\A s \in Slots : C8_Step(s)]_vars

\* C9: when the prober left nothing or something that does not parse on its
\* standard output, the request ends at the classification with one error
\* response, no directory is chosen and no PutObject or UpdateVideo call is
\* made.
C9_Step(s) ==
    (pc[s] = "classify" /\ local[s].out.kind \in {"empty", "garbage"} /\ pc'[s] # pc[s]) =>
        /\ EndedInError(responses'[s], pc'[s], local'[s])
        /\ responses'[s] = <<[status |-> StatusInternalServerError,
                              body |-> "Couldn't get aspect ratio"]>>
        /\ LastStep(s)' = <<"getVideoAspectRatio", FALSE>>
        /\ local'[s].directory \notin Categories
        /\ Steps(s)' \cap {"PutObject", "UpdateVideo"} = {}
        /\ s3' = s3 /\ db' = db

Thm_C9 == [][\A s \in Slots : C9_Step(s)]_vars

Wit_C9 ==
    \E s \in Slots :
        /\ pc[s] = "returned"
        /\ LastStep(s) = <<"getVideoAspectRatio", FALSE>>
        /\ responses[s] = <<[status |-> StatusInternalServerError,
                             body |-> "Couldn't get aspect ratio"]>>

\* C10: a request that has returned ended in Done or Failed with exactly one
\* response; a failed step is the last step of its request, and no step is
\* taken twice.
CE_C10 ==
    \A s \in Slots :
        /\ pc[s] = "returned" =>
              /\ local[s].outcome \in {"Done", "Failed"}
              /\ Len(responses[s]) = 1
        /\ \A i \in 1..Len(trace[s]) : i < Len(trace[s]) => trace[s][i][2]
        /\ \A i, j \in 1..Len(trace[s]) : trace[s][i][1] = trace[s][j][1] => i = j

\* C11: every PutObject call uses a key no earlier PutObject call used, the
\* random names being fresh draws; a successful call adds one object to the
\* store and no object is ever replaced or removed, so repeating an upload
\* adds a second object under a new key.
C11_Step(s) ==
    /\ (pc[s] = "put" /\ pc'[s] # pc[s]) =>
          /\ KeyOf(s) \notin putKeys
          /\ \A o \in s3 : o.Key # KeyOf(s)
          /\ "PutObject" \in StepsOk(s)' =>
                /\ \E o \in s3' : o.Key = KeyOf(s) /\ o \notin s3
                /\ Cardinality(s3') = Cardinality(s3) + 1
    /\ \A o \in s3 : o \in s3'

Thm_C11 == [][\A s \in Slots : C11_Step(s)]_vars

Wit_C11 ==
    \E o1, o2 \in s3 :
        /\ o1.Key # o2.Key
        /\ o1.Key[1] = o2.Key[1]
        /\ o1.Body = o2.Body
        /\ o1.ContentType = o2.ContentType
        /\ {o1.Key, o2.Key} \subseteq putKeys

\* The request of context s has ended with the success response.
Succeeded(s) ==
    /\ pc[s] = "returned"
    /\ local[s].outcome = "Done"
    /\ Len(responses[s]) = 1
    /\ responses[s][1].status = StatusOK

\* The URL the successful request of context s answered with.
AnsweredURL(s) == responses[s][1].body.VideoURL

\* C12: requests for one video are not kept apart; each successful
\* UpdateVideo makes the stored video reference the URL of its own request,
\* whatever reference the record held, so after two successful requests the
\* record holds the URL of the later write; the objects of both stay in the
\* store.
C12_Step(s) ==
    (pc[s] = "update" /\ pc'[s] # pc[s] /\ local'[s].outcome = "Done") =>
        /\ db'[local[s].videoId].VideoURL = VideoURL(KeyOf(s))
        /\ responses'[s] = <<[status |-> StatusOK,
                              body |-> db'[local[s].videoId]]>>
        /\ s3' = s3
        /\ \E o \in s3' : o.Key = KeyOf(s)
        /\ \A t \in Slots \ {s} :
              Succeeded(t) => \E o \in s3' : VideoURL(o.Key) = AnsweredURL(t)

Thm_C12 == [][\A s \in Slots : C12_Step(s)]_vars

\* Both requests succeeded; the one that drew its name first wrote last, and
\* the record holds its URL.
Wit_C12 ==
    \E s, t \in Slots :
        /\ s # t
        /\ Succeeded(s) /\ Succeeded(t)
        /\ AnsweredURL(s)[8] = EncodeToString(1)
        /\ AnsweredURL(t)[8] = EncodeToString(2)
        /\ db["v1"].VideoURL = AnsweredURL(s)
        /\ \A u \in {s, t} : \E o \in s3 : VideoURL(o.Key) = AnsweredURL(u)
        /\ Cardinality(s3) = 2

\* C13: when UpdateVideo fails after PutObject succeeded, the request ends
\* with one error response, the object is still in the store under its key
\* (nothing deletes it), the metadata store is as it was, and no record's
\* video reference is the URL of that object.
C13_Step(s) ==
    (pc[s] = "update" /\ pc'[s] # pc[s] /\ local'[s].outcome # "Done") =>
        /\ <<"PutObject", TRUE>> \in {trace[s][i] : i \in 1..Len(trace[s])}
        /\ LastStep(s)' = <<"UpdateVideo", FALSE>>
        /\ EndedInError(responses'[s], pc'[s], local'[s])
        /\ responses'[s] = <<[status |-> StatusInternalServerError,
                              body |-> "Couldn't update video"]>>
        /\ s3' = s3
        /\ \E o \in s3' : o.Key = KeyOf(s) /\ o.Body = fs[local[s].tempFile.name].data
        /\ db' = db
        /\ \A v \in Videos : db'[v].VideoURL # VideoURL(KeyOf(s))

Thm_C13 == [][\A s \in Slots : C13_Step(s)]_vars

\* The object nothing refers to: a request failed at UpdateVideo, its object
\* is in the store, the record has no video reference.
Wit_C13 ==
    \E s \in Slots :
        /\ pc[s] = "returned"
        /\ LastStep(s) = <<"UpdateVideo", FALSE>>
        /\ responses[s] = <<[status |-> StatusInternalServerError,
                             body |-> "Couldn't update video"]>>
        /\ \E o \in s3 : o.Key[3] = EncodeToString(1)
        /\ Cardinality(s3) = 1
        /\ db["v1"].VideoURL = NoURL

\* The request of context s has returned and has left no temp file and no
\* open handle.
Disposed(s) ==
    /\ pc[s] = "returned"
    /\ \A f \in openFiles : f[1] # s
    /\ \A n \in TempNames :
          fs[n].exists => \E t \in Slots \ {s} : InFlight(t) /\ local[t].tempFile.name = n

\* The steps after the body has been read and copied.
AfterStaging == {"rand", "probe", "classify", "put", "update"}

\* C14 as claimed: a request that ends at r.FormFile because the client went
\* away while the body was received (it had not sent the whole form) has
\* left no temp file and has made no call of the object store and no call of
\* the metadata store; when the client goes away while the body is copied
\* into the temp file (at io.Copy), the request goes no further than the
\* copy and ends in the same way.
CE_C14 ==
    \A s \in Slots :
        /\ (BodyCutShort(s) /\ LastStep(s) = <<"FormFile", FALSE>>) =>
              /\ Disposed(s)
              /\ Steps(s) \cap {"GetVideo", "PutObject", "UpdateVideo"} = {}
        /\ request[s].goneAt = "copy" =>
              /\ pc[s] \notin AfterStaging
              /\ pc[s] = "returned" =>
                    /\ Disposed(s)
                    /\ Steps(s) \cap {"GetVideo", "PutObject", "UpdateVideo"} = {}

\* C14 as amended: when the client goes away while the body is received (it
\* has not sent the whole form), the request ends at r.FormFile at the
\* latest: nothing is staged, no PutObject
\* and no UpdateVideo call is made, and once it has returned it has left no
\* temp file; the GetVideo lookup is the one store call it can have made.
\* Wherever the client goes away, a request that has returned has left no
\* temp file.
Thm_C14 ==
    \A s \in Slots :
        /\ BodyCutShort(s) =>
              /\ request[s].goneAt \in BeforeBodyRead
              /\ pc[s] \in BeforeBodyRead \cup {"returned"}
              /\ <<"FormFile", TRUE>> \notin {trace[s][i] : i \in 1..Len(trace[s])}
              /\ Steps(s) \cap {"CreateTemp", "Copy", "rand.Read", "getVideoAspectRatio",
                                "PutObject", "UpdateVideo"} = {}
              /\ local[s].tempFile = NoHandle
              /\ \A f \in openFiles : f[1] # s
        /\ (request[s].goneAt # None /\ pc[s] = "returned") => Disposed(s)

\* The client went away while the form was read, before it had sent all of
\* it: the request has ended there, after the GetVideo lookup and with
\* nothing stored.
Wit_C14 ==
    \E s \in Slots :
        /\ request[s].goneAt = "formfile"
        /\ BodyCutShort(s)
        /\ pc[s] = "returned"
        /\ LastStep(s) = <<"FormFile", FALSE>>
        /\ <<"GetVideo", TRUE>> \in {trace[s][i] : i \in 1..Len(trace[s])}
        /\ \A n \in TempNames : ~fs[n].exists
        /\ s3 = {} /\ putKeys = {}
        /\ db["v1"].VideoURL = NoURL

\* The status the claim gives a request whose last step is e; the steps on
\* the declared media type (lines 70-84) are one step of the claim, however
\* they end.
ClaimedStatus(e) ==
    CASE e = <<"UpdateVideo", TRUE>> -> StatusOK
      [] ~e[2] /\ e[1] \in {"uuid.Parse", "FormFile", "ParseMediaType", "CheckMediaType",
                            "panic"} -> StatusBadRequest
      [] ~e[2] /\ e[1] \in {"GetBearerToken", "ValidateJWT", "CheckOwner"} -> StatusUnauthorized
      [] ~e[2] /\ e[1] \in {"GetVideo", "CreateTemp", "Copy", "rand.Read",
                            "getVideoAspectRatio", "PutObject", "UpdateVideo"}
            -> StatusInternalServerError
      [] OTHER -> 0

\* C15: a request that has returned has one response, whose status is the
\* one of its first failing step: 400 for the identity, the form and the
\* media type, 401 for the credential and the owner, 500 for the lookup, the
\* temp file, the copy, the probe, PutObject and UpdateVideo; 200, with the
\* updated record, only when every step succeeded.
CE_C15 ==
    \A s \in Slots :
        pc[s] = "returned" =>
            /\ Len(responses[s]) = 1
            /\ responses[s][1].status = ClaimedStatus(LastStep(s))
            /\ responses[s][1].status \in
                  {StatusOK, StatusBadRequest, StatusUnauthorized, StatusInternalServerError}
            /\ \A i \in 1..Len(trace[s]) : i < Len(trace[s]) => trace[s][i][2]
            /\ responses[s][1].status = StatusOK =>
                  /\ \A i \in 1..Len(trace[s]) : trace[s][i][2]
                  /\ responses[s][1].body.ID = "v1"
                  /\ \E k \in putKeys : responses[s][1].body.VideoURL = VideoURL(k)

\* The classification of a file holding the single stream st.
ClassOfOne(st) == getVideoAspectRatio(ObjectOut(<<st>>)).val

\* C16: for a file with several streams of which at least one is a video
\* stream, the classification is that of its last video stream alone: video
\* streams before it and streams of other types, before or after it, do not
\* change the result.
Thm_C16 ==
    \A s \in Slots :
        pc[s] = "put" =>
            LET st == StagedStreams(s)
                V == {i \in 1..Len(st) : st[i].codec_type = "video"}
                k == CHOOSE i \in V : \A j \in V : j <= i
            IN  V # {} =>
                    /\ local[s].aspectRatio = ClassOfOne(st[k])
                    /\ local[s].directory = Directory(ClassOfOne(st[k]))
                    /\ local[s].out = ObjectOut(st)

\* A landscape video stream, then a portrait one, then an audio stream: the
\* file is classified as portrait.
Wit_C16 ==
    \E s \in Slots :
        /\ pc[s] = "put"
        /\ StagedStreams(s) = <<Stream("video", 1920, 1080), Stream("video", 1080, 1920),
                                Stream("audio", 0, 0)>>
        /\ local[s].aspectRatio = "9:16"
        /\ local[s].directory = "portrait"

\* C17: from the copy to the PutObject call the temp file's handle stands at
\* offset 0, so the body PutObject reads is every byte that was staged; it is
\* sent as video/mp4, and every object in the store is a whole payload of
\* that type.
Thm_C17 ==
    /\ \A s \in Slots :
          /\ pc[s] \in {"rand", "probe", "classify", "put"} =>
                local[s].tempFile.offset = 0
          /\ pc[s] = "put" =>
                /\ BodyOf(s) = fs[local[s].tempFile.name].data
                /\ Len(BodyOf(s)) = PayloadLen
                /\ \E p \in Payloads : BodyOf(s) = Chunks(p)
                /\ local[s].mediaType = <<"video", "/", "mp4">>
    /\ \A o \in s3 :
          /\ \E p \in Payloads : o.Body = Chunks(p)
          /\ o.ContentType = <<"video", "/", "mp4">>

Wit_C17 ==
    \E s \in Slots :
        /\ pc[s] = "update"
        /\ local[s].tempFile.offset = PayloadLen
        /\ \E o \in s3 :
              /\ o.Key = KeyOf(s)
              /\ o.Body = Chunks(Media(<<Stream("video", 1920, 1080), Stream("audio", 0, 0)>>))
              /\ o.Body = fs[local[s].tempFile.name].data
              /\ o.ContentType = <<"video", "/", "mp4">>

\* https://<bucket>.s3.<region>.amazonaws.com/<key>
ClaimURL(key) == <<"https://", Bucket, ".s3.", Region, ".amazonaws.com/">> \o key

\* C18: a video reference in the metadata store is the URL
\* https://<bucket>.s3.<region>.amazonaws.com/<key> of an object in the
\* store; a step that writes one is the UpdateVideo of a request whose own
\* PutObject call, made with that key, succeeded before.
C18_Step ==
    /\ \A v \in Videos :
          db'[v].VideoURL # NoURL =>
              \E o \in s3' : o.Key \in putKeys' /\ db'[v].VideoURL = ClaimURL(o.Key)
    /\ db' # db =>
          \E s \in Slots :
              /\ pc[s] = "update" /\ pc'[s] = "returned"
              /\ LastStep(s) = <<"PutObject", TRUE>>
              /\ \E o \in s3 : o.Key = KeyOf(s) /\ o.Body = fs[local[s].tempFile.name].data
              /\ db' = [db EXCEPT ![local[s].videoId].VideoURL = ClaimURL(KeyOf(s))]

Thm_C18 == [][C18_Step]_vars

Wit_C18 ==
    \E s \in Slots :
        /\ Succeeded(s)
        /\ \E o \in s3 :
              /\ db["v1"].VideoURL = ClaimURL(o.Key)
              /\ AnsweredURL(s) = ClaimURL(o.Key)
              /\ o.Key[1] = "other"

\* No stream of streams is a video stream.
NoVideo(streams) == \A i \in 1..Len(streams) : streams[i].codec_type # "video"

\* C20: when the prober's output parses and names no video stream, the
\* classification returns no error: width and height stay 0, the file is
\* classified 16:9 and its object is stored under landscape/.
C20_Step(s) ==
    /\ (/\ pc[s] = "classify" /\ pc'[s] # pc[s]
        /\ local[s].out.kind = "object" /\ NoVideo(local[s].out.streams)) =>
          /\ pc'[s] = "put"
          /\ LastStep(s)' = <<"getVideoAspectRatio", TRUE>>
          /\ responses'[s] = <<>>
          /\ local'[s].aspectRatio = "16:9"
          /\ local'[s].directory = "landscape"
    /\ (/\ pc[s] = "put" /\ pc'[s] = "update"
        /\ local[s].out.kind = "object" /\ NoVideo(local[s].out.streams)) =>
          \E o \in s3' :
              /\ o \notin s3
              /\ o.Key = <<"landscape", "/", EncodeToString(local[s].videoRandomName),
                           ".", "mp4">>

Thm_C20 == [][\A s \in Slots : C20_Step(s)]_vars

\* A payload that is no media file: the prober prints an object without
\* streams, and the object is stored under landscape/.
Wit_C20 ==
    \E s \in Slots :
        /\ pc[s] = "update"
        /\ fs[local[s].tempFile.name].data = Chunks(Junk)
        /\ local[s].out = ObjectOut(<<>>)
        /\ local[s].aspectRatio = "16:9"
        /\ \E o \in s3 : o.Key = KeyOf(s) /\ o.Key[1] = "landscape" /\ o.Body = Chunks(Junk)

\* C19: the UpdateVideo of a video upload leaves the stored thumbnail
\* reference as it was just before, and the UpdateVideo of a thumbnail upload
\* leaves the stored video reference as it was just before, however the two
\* requests on one video interleave.
C19_Step(s) ==
    /\ (pc[s] = "update" /\ pc'[s] # pc[s]) =>
          \A v \in Videos : db'[v].ThumbnailURL = db[v].ThumbnailURL
    /\ (pc[s] = "t_update" /\ pc'[s] # pc[s]) =>
          \A v \in Videos : db'[v].VideoURL = db[v].VideoURL

CE_C19 == [][\A s \in Slots : C19_Step(s)]_vars
====
